---------------------------- MODULE Spec2Model ----------------------------
(***************************************************************************)
(* Model of src/main.cc: the class template Vector<T> and the free         *)
(* function find_pu_vector.                                                *)
(*                                                                         *)
(* Element type.  T is modelled as the floating-point instantiation the    *)
(* source is written for (std::sqrt, the 1.0E-5 tolerance, the [-1,1]      *)
(* random draw).  A value of T is an integer number of units, one unit     *)
(* being 1.0E-5 (the eps of operator==), or the not-a-number value NaN.    *)
(* Sums and differences are exact; products, quotients and square roots    *)
(* are rounded to the nearest unit, as IEEE arithmetic rounds to the       *)
(* nearest representable value.  NaN propagates through every arithmetic   *)
(* operation and every ordered comparison with NaN is false.               *)
(***************************************************************************)
EXTENDS Integers, Sequences, FiniteSets, TLC

VARIABLES vec, heap, last, ex

vars == <<vec, heap, last, ex>>

-----------------------------------------------------------------------------
(* Bounds of the model *)

\* largest vector length that is constructed, read from input or drawn
MaxLen == 2

-----------------------------------------------------------------------------
(* size_t *)

\* the largest value of size_t; the width is narrowed to 31 bits, the widest
\* the checker's integers hold
SizeMax == 2147483647

\* _size - other._size in size_t: the difference modulo SizeMax + 1
SizeDiff(s1, s2) == IF s1 >= s2 THEN s1 - s2 ELSE SizeMax - (s2 - s1) + 1

-----------------------------------------------------------------------------
(* The element type T *)

\* const double eps = 1.0E-5 is 1 / EpsDen
EpsDen == 100000

\* units per 1.0: one unit is eps
Scale == EpsDen

\* the tolerance of operator==, in units
Eps == Scale \div EpsDen

NaN == -SizeMax

IsNaN(x) == x = NaN

Abs(x) == IF x < 0 THEN -x ELSE x

Sgn(x) == IF x < 0 THEN -1 ELSE 1

\* T() and T(0)
Zero == 0

\* <<q, r>> with x * y = q * m + r and 0 <= r < m, for x, y >= 0 and m > 0,
\* by doubling, so that no intermediate value exceeds the checker's integers
RECURSIVE MulDivQR(_, _, _)
MulDivQR(x, y, m) ==
    IF y = 0 THEN <<0, 0>>
    ELSE LET h  == MulDivQR(x, y \div 2, m)
             q2 == 2 * h[1] + (2 * h[2]) \div m
             r2 == (2 * h[2]) % m
         IN  IF y % 2 = 0 THEN <<q2, r2>>
             ELSE <<q2 + (x \div m) + (r2 + (x % m)) \div m, (r2 + (x % m)) % m>>

\* the quotient x * y / m rounded to the nearest integer
RoundQ(x, y, m) ==
    LET h == MulDivQR(x, y, m)
    IN  IF 2 * h[2] >= m THEN h[1] + 1 ELSE h[1]

\* x + y in T
TAdd(x, y) == IF IsNaN(x) \/ IsNaN(y) THEN NaN ELSE x + y

\* x - y in T
TSub(x, y) == IF IsNaN(x) \/ IsNaN(y) THEN NaN ELSE x - y

\* x * y in T
TMul(x, y) ==
    IF IsNaN(x) \/ IsNaN(y) THEN NaN
    ELSE Sgn(x) * Sgn(y) * RoundQ(Abs(x), Abs(y), Scale)

\* x / y in T; no caller passes y = 0 (operator/ throws first, normalize
\* divides by the square root of a non-zero sum)
TDiv(x, y) ==
    IF IsNaN(x) \/ IsNaN(y) \/ y = 0 THEN NaN
    ELSE Sgn(x) * Sgn(y) * RoundQ(Abs(x), Scale, Abs(y))

\* <<q, r>> pairs compared as the numbers q * m + r
PairLeq(p, q) == p[1] < q[1] \/ (p[1] = q[1] /\ p[2] <= q[2])

\* the largest r in lo..hi with r * r <= x * Scale
RECURSIVE FloorSqrt(_, _, _)
FloorSqrt(x, lo, hi) ==
    IF lo >= hi THEN lo
    ELSE LET mid == (lo + hi + 1) \div 2
         IN  IF PairLeq(MulDivQR(mid, mid, Scale), <<x, 0>>)
             THEN FloorSqrt(x, mid, hi)
             ELSE FloorSqrt(x, lo, mid - 1)

\* std::sqrt: NaN for a negative argument, else the root rounded to nearest
TSqrt(x) ==
    IF IsNaN(x) \/ x < 0 THEN NaN
    ELSE LET r == FloorSqrt(x, 0, x + Scale)
             \* r * (r + 1) < x * Scale  iff  (r + 1/2)^2 < x * Scale
         IN  IF PairLeq(MulDivQR(r, r + 1, Scale), <<x, 0>>)
                /\ MulDivQR(r, r + 1, Scale) # <<x, 0>>
             THEN r + 1 ELSE r

\* x > y on T: false when either side is NaN
TGt(x, y) == ~IsNaN(x) /\ ~IsNaN(y) /\ x > y

\* x == y on T: false when either side is NaN
TEq(x, y) == ~IsNaN(x) /\ ~IsNaN(y) /\ x = y

\* std::abs on T
TAbs(x) == IF IsNaN(x) THEN NaN ELSE Abs(x)

-----------------------------------------------------------------------------
(* Vector<T> as a value: _size and the contents of the buffer _elem.  The   *)
(* code's index i is position i + 1 of the sequence.                        *)

Vec(n, buf) == [size |-> n, elem |-> buf]

NoVec == Vec(0, <<>>)

\* what() of the exceptions the code throws; NoErr is a normal return
NoErr == "none"
OutOfRange == "Index out of range"
DimMismatch == "Vectors must have the same dimension"
DivByZero == "Cannot divide by zero"
ZeroVector == "Cannot normalize zero vector"
BadAlloc == "std::bad_array_new_length"

Ok(v) == [err |-> NoErr, val |-> v]

Throw(e) == [err |-> e, val |-> NoVec]

\* new T[n] throws when n elements exceed the largest object, PTRDIFF_MAX
AllocFails(n) == n > SizeMax \div 2

\* Vector(size_t size, const T& value = T()): the buffer after the fill loop
FillCtorRun(n, value) == Vec(n, [i \in 1..n |-> value])

\* operator[]: the bounds check
IndexThrows(v, index) == index >= v.size

\* operator+ as it would be without the check of the dimensions, adding
\* over the shorter of the two operands
OpPlusTruncating(a, b) ==
    LET n == IF a.size <= b.size THEN a.size ELSE b.size
    IN  Ok(Vec(n, [i \in 1..n |-> TAdd(a.elem[i], b.elem[i])]))

\* operator+
OpPlus(a, b) ==
    IF a.size # b.size THEN Throw(DimMismatch)
    ELSE Ok(Vec(a.size, [i \in 1..a.size |-> TAdd(a.elem[i], b.elem[i])]))

\* operator- as it would be with the operands of the subtraction exchanged
OpMinusReversed(a, b) ==
    IF a.size # b.size THEN Throw(DimMismatch)
    ELSE Ok(Vec(a.size, [i \in 1..a.size |-> TSub(b.elem[i], a.elem[i])]))

\* operator-
OpMinus(a, b) ==
    IF a.size # b.size THEN Throw(DimMismatch)
    ELSE Ok(Vec(a.size, [i \in 1..a.size |-> TSub(a.elem[i], b.elem[i])]))

\* operator*(const Vector<T>&): the elementwise product
OpTimes(a, b) ==
    IF a.size # b.size THEN Throw(DimMismatch)
    ELSE Ok(Vec(a.size, [i \in 1..a.size |-> TMul(a.elem[i], b.elem[i])]))

\* operator*(const T& scalar)
OpScale(a, scalar) ==
    Ok(Vec(a.size, [i \in 1..a.size |-> TMul(a.elem[i], scalar)]))

\* operator/ as it would be without the check of the divisor
OpDivideUnchecked(a, scalar) ==
    Ok(Vec(a.size, [i \in 1..a.size |-> TDiv(a.elem[i], scalar)]))

\* operator/(const T& scalar)
OpDivide(a, scalar) ==
    IF TEq(scalar, Zero) THEN Throw(DivByZero)
    ELSE Ok(Vec(a.size, [i \in 1..a.size |-> TDiv(a.elem[i], scalar)]))

\* sqrt_elements
OpSqrtElements(a) ==
    Ok(Vec(a.size, [i \in 1..a.size |-> TSqrt(a.elem[i])]))

\* std::abs(_size - other._size) > eps: the operand is a count, not a T, and
\* a count d exceeds eps = 1 / EpsDen exactly when d >= 1
SizesDiffer(s1, s2) == SizeDiff(s1, s2) >= 1

\* the element loop of operator==, from index i: the first pair further
\* apart than eps returns false.  A read outside a buffer is undefined; the
\* run stops there and records it in oob
RECURSIVE EqLoop(_, _, _)
EqLoop(a, b, i) ==
    IF i >= a.size THEN [ret |-> TRUE, oob |-> FALSE]
    ELSE IF i >= Len(a.elem) \/ i >= Len(b.elem) THEN [ret |-> FALSE, oob |-> TRUE]
    ELSE IF TGt(TAbs(TSub(a.elem[i + 1], b.elem[i + 1])), Eps)
         THEN [ret |-> FALSE, oob |-> FALSE]
         ELSE EqLoop(a, b, i + 1)

\* operator==: ret is the value returned, oob whether an element outside a
\* buffer was read on the way
OpEqRun(a, b) ==
    IF SizesDiffer(a.size, b.size) THEN [ret |-> FALSE, oob |-> FALSE]
    ELSE EqLoop(a, b, 0)

OpEq(a, b) == OpEqRun(a, b).ret

\* operator!=
OpNeq(a, b) == ~OpEq(a, b)

\* the first loop of normalize: length_squared after indices i.._size-1
\* have been added to acc
RECURSIVE SumSquares(_, _, _)
SumSquares(v, i, acc) ==
    IF i >= v.size THEN acc
    ELSE SumSquares(v, i + 1, TAdd(acc, TMul(v.elem[i + 1], v.elem[i + 1])))

\* normalize as it would be if the second loop divided by length_squared
NormalizeBySquare(v) ==
    LET length_squared == SumSquares(v, 0, Zero)
    IN  IF TEq(length_squared, Zero) THEN [err |-> ZeroVector, val |-> v]
        ELSE [err |-> NoErr,
              val |-> Vec(v.size, [i \in 1..v.size |-> TDiv(v.elem[i], length_squared)])]

\* normalize: err is the exception thrown (or none) and val the vector as the
\* call leaves it
NormalizeRun(v) ==
    LET length_squared == SumSquares(v, 0, Zero)
        length == TSqrt(length_squared)
    IN  IF TEq(length_squared, Zero) THEN [err |-> ZeroVector, val |-> v]
        ELSE [err |-> NoErr,
              val |-> Vec(v.size, [i \in 1..v.size |-> TDiv(v.elem[i], length)])]

-----------------------------------------------------------------------------
(* Objects and the free store.  vec holds the Vector objects of a client,   *)
(* by the name of the variable; heap holds the arrays made by new T[n].     *)
(* last is the latest call: the operation, the object it was called on, its *)
(* other operand and the exception it threw.                                *)

Names == {"u", "v"}

\* addresses of the free store; 0 is nullptr
Addrs == 1..Cardinality(Names)

Null == 0

\* values a client stores or types in
Elems == {Zero, Scale}

\* sizes passed to a constructor or typed in: the lengths up to MaxLen, and
\* the value a too large or negative number is read as
Sizes == (0..MaxLen) \cup {SizeMax}

\* indices passed to operator[]
Indices == 0..MaxLen

\* broken: a member function threw after it had released _elem and changed
\* _size (input_from_keyboard when new T[_size] throws).  src is not a member:
\* it names the object this one was last made a copy of, by the copy
\* constructor or by operator=.
Dead == [live |-> FALSE, _elem |-> Null, _size |-> 0, broken |-> FALSE, src |-> "-"]

Obj(p, n) == [live |-> TRUE, _elem |-> p, _size |-> n, broken |-> FALSE, src |-> "-"]

FreeCell == [alloc |-> FALSE, cells |-> <<>>]

\* the buffer a pointer refers to
Deref(h, p) == IF p \in Addrs THEN h[p].cells ELSE <<>>

\* the object o as a value: its _size and what _elem points to
Value(h, o) == Vec(o._size, Deref(h, o._elem))

View(n) == Value(heap, vec[n])

\* the addresses new T[n] can hand out: those not in use
FreeAddrs(h) == {p \in Addrs : ~h[p].alloc}

\* the store after new T[n] returned p and the writes that fill it with buf
Store(h, p, buf) == [h EXCEPT ![p] = [alloc |-> TRUE, cells |-> buf]]

\* the store after delete[] p; delete[] nullptr does nothing
Release(h, p) == IF p \in Addrs THEN [h EXCEPT ![p] = FreeCell] ELSE h

\* the store after the loop that writes buf to the elements of p; a loop of
\* zero iterations writes nothing
WriteAll(h, p, buf) == IF buf = <<>> THEN h ELSE [h EXCEPT ![p].cells = buf]

\* the abort of the run when delete[] is given a pointer it was given before
DoubleFree == "free(): double free detected"

\* an object in the state its constructors establish: constructed, and not
\* left behind by a call that threw
Usable(n) == vec[n].live /\ ~vec[n].broken

\* the run goes on until a double free ends it
Running == last.err # DoubleFree

\* typed is what was typed in to input_from_keyboard: the size and the values
Call(op, a, b, err) == [op |-> op, a |-> a, b |-> b, err |-> err, typed |-> NoVec]

Idle == [op |-> "idle"]

Init ==
    /\ vec = [n \in Names |-> Dead]
    /\ heap = [p \in Addrs |-> FreeCell]
    /\ last = Call("none", "-", "-", NoErr)
    /\ ex = Idle

\* Vector()
DefaultCtor(n) ==
    /\ Running
    /\ ~vec[n].live
    /\ vec' = [vec EXCEPT ![n] = Obj(Null, 0)]
    /\ last' = Call("Vector()", n, "-", NoErr)
    /\ UNCHANGED <<heap, ex>>

\* Vector(size_t size, const T& value); p is the address new returns
FillCtor(n, p, size, value) ==
    /\ Running
    /\ ~vec[n].live
    /\ p \in FreeAddrs(heap)
    /\ IF AllocFails(size)
       THEN /\ last' = Call("Vector(size,value)", n, "-", BadAlloc)
            /\ UNCHANGED <<vec, heap>>
       ELSE /\ heap' = Store(heap, p, FillCtorRun(size, value).elem)
            /\ vec' = [vec EXCEPT ![n] = Obj(p, size)]
            /\ last' = Call("Vector(size,value)", n, "-", NoErr)
    /\ UNCHANGED ex

\* the values uniform_real_distribution<T>(low_bound, up_bound) returns,
\* among the values of S: those in [low_bound, up_bound)
Draws(S, low_bound, up_bound) == {x \in S : low_bound <= x /\ x < up_bound}

\* Vector(size_t size, T low_bound, T up_bound)
RandomCtor(n, p, size, low_bound, up_bound) ==
    /\ Running
    /\ ~vec[n].live
    /\ p \in FreeAddrs(heap)
    /\ \E buf \in [1..size -> Draws(Elems, low_bound, up_bound)] :
          /\ heap' = Store(heap, p, buf)
          /\ vec' = [vec EXCEPT ![n] = Obj(p, size)]
    /\ last' = Call("Vector(size,low,up)", n, "-", NoErr)
    /\ UNCHANGED ex

\* the buffer the copy loops fill: element i of other, for i below _size
CopyLoop(other) == [i \in 1..other.size |-> other.elem[i]]

\* Vector(const Vector& other): the new object and the store
CopyCtorRun(h, p, other) ==
    [obj |-> Obj(p, other._size), heap |-> Store(h, p, CopyLoop(Value(h, other)))]

\* Vector(const Vector& other)
CopyCtor(n, p, other) ==
    /\ Running
    /\ ~vec[n].live
    /\ Usable(other)
    /\ p \in FreeAddrs(heap)
    /\ vec' = [vec EXCEPT ![n] = [CopyCtorRun(heap, p, vec[other]).obj EXCEPT !.src = other]]
    /\ heap' = CopyCtorRun(heap, p, vec[other]).heap
    /\ last' = Call("Vector(other)", n, other, NoErr)
    /\ UNCHANGED ex

\* ~Vector(): delete[] _elem.  The pointer of a broken object was already
\* given to delete[].
Destroy(n) ==
    /\ Running
    /\ vec[n].live
    /\ heap' = Release(heap, vec[n]._elem)
    /\ vec' = [vec EXCEPT ![n] = Dead]
    /\ last' = Call("~Vector", n, "-",
                    IF vec[n].broken /\ vec[n]._elem # Null THEN DoubleFree ELSE NoErr)
    /\ UNCHANGED ex

\* operator=: the object and the store after the assignment; same is
\* this == &other, p the address new returns when it is called
AssignRun(h, p, o, same, other) ==
    IF same THEN [obj |-> o, heap |-> h]
    ELSE IF o._size # other._size
         THEN LET h1 == Release(h, o._elem)
              IN  [obj |-> Obj(p, other._size),
                   heap |-> Store(h1, p, CopyLoop(Value(h1, other)))]
         ELSE [obj |-> o, heap |-> WriteAll(h, o._elem, CopyLoop(Value(h, other)))]

\* operator=
Assign(n, p, other) ==
    /\ Running
    /\ Usable(n) /\ Usable(other)
    /\ p \in FreeAddrs(Release(heap, vec[n]._elem))
    /\ vec' = [vec EXCEPT ![n] =
                  [AssignRun(heap, p, vec[n], n = other, vec[other]).obj
                      EXCEPT !.src = IF n = other THEN vec[n].src ELSE other]]
    /\ heap' = AssignRun(heap, p, vec[n], n = other, vec[other]).heap
    /\ last' = Call("operator=", n, other, NoErr)
    /\ UNCHANGED ex

\* operator[] used to store value as it would be if an index past the end
\* were clamped to the last element
IndexWriteClamped(v, index, value) ==
    IF v.size = 0 THEN [err |-> OutOfRange, val |-> v]
    ELSE LET k == IF index >= v.size THEN v.size ELSE index + 1
         IN  [err |-> NoErr, val |-> Vec(v.size, [v.elem EXCEPT ![k] = value])]

\* operator[] used to store value: the vector after _elem[index] = value, or
\* the exception
IndexWriteRun(v, index, value) ==
    IF IndexThrows(v, index) THEN [err |-> OutOfRange, val |-> v]
    ELSE [err |-> NoErr, val |-> Vec(v.size, [v.elem EXCEPT ![index + 1] = value])]

\* the store after _elem[index] = value through the pointer p: the element
\* of whatever array is at p now.  A write that lands in no array in use
\* goes to released memory and changes no object.
PokeStore(h, p, index, value) ==
    IF p \in Addrs /\ h[p].alloc /\ index < Len(h[p].cells)
    THEN [h EXCEPT ![p].cells[index + 1] = value]
    ELSE h

\* a[index] = value.  The bounds check reads _size, which in a broken
\* object is the size that could not be allocated.
IndexWrite(n, index, value) ==
    /\ Running
    /\ vec[n].live
    /\ IF IndexThrows(Vec(vec[n]._size, <<>>), index)
       THEN /\ last' = Call("operator[]", n, "-", OutOfRange)
            /\ UNCHANGED heap
       ELSE /\ heap' = PokeStore(heap, vec[n]._elem, index, value)
            /\ last' = Call("operator[]", n, "-", NoErr)
    /\ UNCHANGED <<vec, ex>>

\* a.normalize(): in place.  The model normalises the vectors of values a
\* client stores.
Normalize(a) ==
    /\ Running
    /\ Usable(a)
    /\ \A i \in 1..Len(View(a).elem) : View(a).elem[i] \in Elems
    /\ LET r == NormalizeRun(View(a))
       IN  /\ heap' = WriteAll(heap, vec[a]._elem, r.val.elem)
           /\ last' = Call("normalize", a, "-", r.err)
    /\ UNCHANGED <<vec, ex>>

\* input_from_keyboard when size and then input are typed in: _size is
\* read, the old buffer released, the new one allocated and filled in order.
\* When new T[_size] throws, _size is already the new size and _elem still
\* the released pointer.
InputFromKeyboardRun(h, p, o, size, input) ==
    LET h1 == Release(h, o._elem)
    IN  IF AllocFails(size)
        THEN [err |-> BadAlloc, heap |-> h1,
              obj |-> [o EXCEPT !._size = size, !.broken = TRUE]]
        ELSE [err |-> NoErr, heap |-> Store(h1, p, input), obj |-> Obj(p, size)]

\* a.input_from_keyboard()
InputFromKeyboard(a, p, size, input) ==
    /\ Running
    /\ Usable(a)
    /\ p \in FreeAddrs(Release(heap, vec[a]._elem))
    /\ LET r == InputFromKeyboardRun(heap, p, vec[a], size, input)
       IN  /\ heap' = r.heap
           /\ vec' = [vec EXCEPT ![a] = [r.obj EXCEPT !.src = vec[a].src]]
           /\ last' = [Call("input_from_keyboard", a, "-", r.err)
                          EXCEPT !.typed = Vec(size, input)]
    /\ UNCHANGED ex

\* what can be typed in after size: that many values, or nothing that is
\* read when the allocation throws first
Inputs(size) == IF AllocFails(size) THEN {<<>>} ELSE [1..size -> Elems]

Next ==
    \/ \E n \in Names : DefaultCtor(n)
    \/ \E n \in Names, p \in Addrs, size \in Sizes, value \in Elems :
          FillCtor(n, p, size, value)
    \/ \E n \in Names, p \in Addrs, size \in 0..MaxLen :
          RandomCtor(n, p, size, Zero, 2 * Scale)
    \/ \E n, other \in Names, p \in Addrs : CopyCtor(n, p, other)
    \/ \E n \in Names : Destroy(n)
    \/ \E n, other \in Names, p \in Addrs : Assign(n, p, other)
    \/ \E n \in Names, index \in Indices, value \in Elems : IndexWrite(n, index, value)
    \/ \E a \in Names : Normalize(a)
    \/ \E a \in Names, p \in Addrs, size \in Sizes : \E input \in Inputs(size) :
          InputFromKeyboard(a, p, size, input)

Spec == Init /\ [][Next]_vars

-----------------------------------------------------------------------------
(* Calls on vectors given as values.  ex holds a client expression: the     *)
(* operands a and b as they are before the call, the operation, its index   *)
(* and scalar arguments, the exception thrown, the vector returned (for a   *)
(* member that works in place: the object as the call leaves it) and the    *)
(* scalar or boolean returned.                                              *)

Expr(a, b, op, idx, val, err, ret, flag) ==
    [a |-> a, b |-> b, op |-> op, idx |-> idx, val |-> val, err |-> err,
     ret |-> ret, flag |-> flag]

\* the vectors of at most MaxLen values of S
VecsOf(S) == UNION {{Vec(k, buf) : buf \in [1..k -> S]} : k \in 0..MaxLen}

Operands(A, B) == {Expr(a, b, "none", 0, Zero, NoErr, NoVec, FALSE) : a \in A, b \in B}

NoObjects ==
    /\ vec = [n \in Names |-> Dead]
    /\ heap = [p \in Addrs |-> FreeCell]
    /\ last = Call("none", "-", "-", NoErr)

\* elements of the vectors the one-operand calls are made on
UElems == {Zero, 3 * Scale, 4 * Scale, -Scale, NaN}

\* scalars passed to operator* and operator/
Scalars == {Zero, 2 * Scale, -Scale, NaN}

\* indices passed to operator[]: up to past the end, and size_t(-1)
AccessIndices == (0..(MaxLen + 1)) \cup {SizeMax}

InitUnary == NoObjects /\ ex \in Operands(VecsOf(UElems), {NoVec})

\* a[index], read
EvalIndexRead(index) ==
    /\ ex' = IF IndexThrows(ex.a, index)
             THEN Expr(ex.a, ex.b, "operator[]", index, Zero, OutOfRange, ex.a, FALSE)
             ELSE Expr(ex.a, ex.b, "operator[]", index, ex.a.elem[index + 1], NoErr,
                       ex.a, FALSE)
    /\ UNCHANGED <<vec, heap, last>>

\* a[index] = value
EvalIndexWrite(index, value) ==
    /\ LET r == IndexWriteRun(ex.a, index, value)
       IN  ex' = Expr(ex.a, ex.b, "operator[]=", index, value, r.err, r.val, FALSE)
    /\ UNCHANGED <<vec, heap, last>>

\* a * scalar
EvalScale(scalar) ==
    /\ LET r == OpScale(ex.a, scalar)
       IN  ex' = Expr(ex.a, ex.b, "operator*(T)", 0, scalar, r.err, r.val, FALSE)
    /\ UNCHANGED <<vec, heap, last>>

\* a / scalar
EvalDivide(scalar) ==
    /\ LET r == OpDivide(ex.a, scalar)
       IN  ex' = Expr(ex.a, ex.b, "operator/", 0, scalar, r.err, r.val, FALSE)
    /\ UNCHANGED <<vec, heap, last>>

\* a.sqrt_elements()
EvalSqrtElements ==
    /\ LET r == OpSqrtElements(ex.a)
       IN  ex' = Expr(ex.a, ex.b, "sqrt_elements", 0, Zero, r.err, r.val, FALSE)
    /\ UNCHANGED <<vec, heap, last>>

\* a.normalize()
EvalNormalize ==
    /\ LET r == NormalizeRun(ex.a)
       IN  ex' = Expr(ex.a, ex.b, "normalize", 0, Zero, r.err, r.val, FALSE)
    /\ UNCHANGED <<vec, heap, last>>

\* a.Get_Dim()
EvalGetDim ==
    /\ ex' = Expr(ex.a, ex.b, "Get_Dim", ex.a.size, Zero, NoErr, ex.a, FALSE)
    /\ UNCHANGED <<vec, heap, last>>

NextUnary ==
    \/ \E index \in AccessIndices : EvalIndexRead(index)
    \/ \E index \in AccessIndices, value \in {Zero, 7 * Scale} : EvalIndexWrite(index, value)
    \/ \E scalar \in Scalars : EvalScale(scalar)
    \/ \E scalar \in Scalars : EvalDivide(scalar)
    \/ EvalSqrtElements
    \/ EvalNormalize
    \/ EvalGetDim

SpecUnary == InitUnary /\ [][NextUnary]_vars

\* elements of the vectors the two-operand arithmetic is done on
BElems == {Zero, 3 * Scale, -4 * Scale, NaN}

InitBinary == NoObjects /\ ex \in Operands(VecsOf(BElems), VecsOf(BElems))

\* a + b
EvalPlus ==
    /\ LET r == OpPlus(ex.a, ex.b)
       IN  ex' = Expr(ex.a, ex.b, "operator+", 0, Zero, r.err, r.val, FALSE)
    /\ UNCHANGED <<vec, heap, last>>

\* a - b
EvalMinus ==
    /\ LET r == OpMinus(ex.a, ex.b)
       IN  ex' = Expr(ex.a, ex.b, "operator-", 0, Zero, r.err, r.val, FALSE)
    /\ UNCHANGED <<vec, heap, last>>

\* a * b
EvalTimes ==
    /\ LET r == OpTimes(ex.a, ex.b)
       IN  ex' = Expr(ex.a, ex.b, "operator*", 0, Zero, r.err, r.val, FALSE)
    /\ UNCHANGED <<vec, heap, last>>

\* (a + b) == (b + a), for a and b of one length
EvalPlusCommuted ==
    /\ ex.a.size = ex.b.size
    /\ ex' = Expr(ex.a, ex.b, "a+b == b+a", 0, Zero, NoErr, OpPlus(ex.a, ex.b).val,
                  OpEq(OpPlus(ex.a, ex.b).val, OpPlus(ex.b, ex.a).val))
    /\ UNCHANGED <<vec, heap, last>>

\* (a - b) == (a + b * T(-1)), for a and b of one length
EvalMinusAsPlus ==
    /\ ex.a.size = ex.b.size
    /\ ex' = Expr(ex.a, ex.b, "a-b == a+b*(-1)", 0, -Scale, NoErr, OpMinus(ex.a, ex.b).val,
                  OpEq(OpMinus(ex.a, ex.b).val,
                       OpPlus(ex.a, OpScale(ex.b, -Scale).val).val))
    /\ UNCHANGED <<vec, heap, last>>

NextBinary ==
    \/ EvalPlus
    \/ EvalMinus
    \/ EvalTimes
    \/ EvalPlusCommuted
    \/ EvalMinusAsPlus

SpecBinary == InitBinary /\ [][NextBinary]_vars

\* elements of the vectors that are compared: apart by eps, by more, or NaN
EqElems == {Zero, Eps, 2 * Eps, NaN}

InitEq == NoObjects /\ ex \in Operands(VecsOf(EqElems), VecsOf(EqElems))

\* a == b
EvalEq ==
    /\ ex' = Expr(ex.a, ex.b, "operator==", 0, Zero, NoErr, NoVec, OpEq(ex.a, ex.b))
    /\ UNCHANGED <<vec, heap, last>>

\* a != b
EvalNeq ==
    /\ ex' = Expr(ex.a, ex.b, "operator!=", 0, Zero, NoErr, NoVec, OpNeq(ex.a, ex.b))
    /\ UNCHANGED <<vec, heap, last>>

NextEq ==
    \/ EvalEq
    \/ EvalNeq

SpecEq == InitEq /\ [][NextEq]_vars

-----------------------------------------------------------------------------
(* find_pu_vector(a), statement by statement.  In this specification ex     *)
(* holds the argument, the locals made so far, the statement reached and    *)
(* the exception that left the function.                                    *)

Pu(pc, a, a_norm, b, project, b_orth, err) ==
    [op |-> "find_pu_vector", pc |-> pc, a |-> a, a_norm |-> a_norm, b |-> b,
     project |-> project, b_orth |-> b_orth, err |-> err]

\* elements of the argument
PuElems == {Zero, Scale, 2 * Scale}

\* the values of T among which the random vector is drawn
RandGrid == {-Scale, -(Scale \div 2), Zero, Scale \div 2, Scale}

InitPu ==
    /\ NoObjects
    /\ ex \in {Pu("entry", a, NoVec, NoVec, NoVec, NoVec, NoErr) : a \in VecsOf(PuElems)}

\* Vector<T> a_norm = a; a_norm.normalize();
PuNormalizeA ==
    /\ ex.pc = "entry"
    /\ LET a_norm == Vec(ex.a.size, CopyLoop(ex.a))
           r == NormalizeRun(a_norm)
       IN  ex' = IF r.err # NoErr
                 THEN [ex EXCEPT !.pc = "thrown", !.a_norm = r.val, !.err = r.err]
                 ELSE [ex EXCEPT !.pc = "normalized", !.a_norm = r.val]
    /\ UNCHANGED <<vec, heap, last>>

\* Vector<T> b(a.Get_Dim(), T(-1), T(1));
PuDrawB ==
    /\ ex.pc = "normalized"
    /\ \E buf \in [1..ex.a.size -> Draws(RandGrid, -Scale, Scale)] :
          ex' = [ex EXCEPT !.pc = "drawn", !.b = Vec(ex.a.size, buf)]
    /\ UNCHANGED <<vec, heap, last>>

\* (b * a_norm) * a_norm: both operands of each * are Vector<T>, so each is
\* operator*(const Vector<T>&), the elementwise product
ProjectRun(b, a_norm) ==
    LET first == OpTimes(b, a_norm)
    IN  IF first.err # NoErr THEN first ELSE OpTimes(first.val, a_norm)

\* Vector<T> project = (b * a_norm) * a_norm;
PuProject ==
    /\ ex.pc = "drawn"
    /\ LET r == ProjectRun(ex.b, ex.a_norm)
       IN  ex' = IF r.err # NoErr
                 THEN [ex EXCEPT !.pc = "thrown", !.err = r.err]
                 ELSE [ex EXCEPT !.pc = "projected", !.project = r.val]
    /\ UNCHANGED <<vec, heap, last>>

\* Vector<T> b_orth = b - project;
PuSubtract ==
    /\ ex.pc = "projected"
    /\ LET r == OpMinus(ex.b, ex.project)
       IN  ex' = IF r.err # NoErr
                 THEN [ex EXCEPT !.pc = "thrown", !.err = r.err]
                 ELSE [ex EXCEPT !.pc = "subtracted", !.b_orth = r.val]
    /\ UNCHANGED <<vec, heap, last>>

\* b_orth.normalize(); return b_orth;
PuNormalizeReturn ==
    /\ ex.pc = "subtracted"
    /\ LET r == NormalizeRun(ex.b_orth)
       IN  ex' = IF r.err # NoErr
                 THEN [ex EXCEPT !.pc = "thrown", !.err = r.err]
                 ELSE [ex EXCEPT !.pc = "returned", !.b_orth = r.val]
    /\ UNCHANGED <<vec, heap, last>>

NextPu ==
    \/ PuNormalizeA
    \/ PuDrawB
    \/ PuProject
    \/ PuSubtract
    \/ PuNormalizeReturn

SpecPu == InitPu /\ [][NextPu]_vars

-----------------------------------------------------------------------------
(* Properties of the objects and the free store (Spec) *)

\* n is constructed and its buffer is an array in use of exactly _size
\* elements, or it is empty with no buffer
OwnsBuffer(n) ==
    \/ vec[n]._elem = Null /\ vec[n]._size = 0
    \/ /\ vec[n]._elem \in Addrs
       /\ heap[vec[n]._elem].alloc
       /\ Len(heap[vec[n]._elem].cells) = vec[n]._size

\* C10: in every reachable state each live vector's buffer holds exactly
\* _size elements, no two live vectors share a buffer, every array in use
\* belongs to a live vector and no array is released twice; after
\* input_from_keyboard the vector has the size typed in and exactly the
\* values typed in, in order.
C10_BuffersOwnedOnce ==
    /\ \A n \in Names : vec[n].live => OwnsBuffer(n)
    /\ \A n, m \in Names :
          (n # m /\ vec[n].live /\ vec[m].live /\ vec[n]._elem # Null)
             => vec[n]._elem # vec[m]._elem
    /\ \A p \in Addrs : heap[p].alloc => \E n \in Names : vec[n].live /\ vec[n]._elem = p
    /\ last.err # DoubleFree
    /\ last.op = "input_from_keyboard" => View(last.a) = last.typed

\* the calls that write elements of the object they are called on
InPlaceOps == {"operator[]", "normalize", "input_from_keyboard", "operator="}

\* C4: a copy made by the copy constructor or by operator= compares equal to
\* its source, and no element write or in-place operation on the one changes
\* the size or an element of the other.
C4_CopyIndependent ==
    [][ /\ last'.op \in {"Vector(other)", "operator="}
           => OpEq(Value(heap', vec'[last'.a]), Value(heap', vec'[last'.b]))
        /\ \A n, m \in Names :
              ( /\ n # m
                /\ vec[n].live /\ Usable(m)
                /\ vec[n].src = m \/ vec[m].src = n
                /\ last'.op \in InPlaceOps /\ last'.a = n )
              => /\ vec'[m]._size = vec[m]._size
                 /\ Value(heap', vec'[m]).elem = View(m).elem
      ]_vars

-----------------------------------------------------------------------------
(* Properties of find_pu_vector (SpecPu) *)

\* the dot product of two vectors of one length, summed in index order
RECURSIVE DotFrom(_, _, _)
DotFrom(x, y, i) ==
    IF i > x.size THEN Zero ELSE TAdd(TMul(x.elem[i], y.elem[i]), DotFrom(x, y, i + 1))

Dot(x, y) == DotFrom(x, y, 1)

\* the rounding the model's arithmetic is allowed in a dot product: 1.0E-3
PuTol == Scale \div 1000

\* C1: whenever find_pu_vector(a) returns, the vector returned is orthogonal
\* to a and has length 1 (both within the rounding of the arithmetic).
C1_OrthogonalUnit ==
    ex.pc = "returned" =>
       /\ Abs(Dot(ex.b_orth, ex.a)) <= PuTol
       /\ Abs(Dot(ex.b_orth, ex.b_orth) - Scale) <= PuTol

\* x * y exactly, as a signed <<q, r>> pair
ExactProd(x, y) ==
    LET h == MulDivQR(Abs(x), Abs(y), Scale)
    IN  <<Sgn(x) * Sgn(y) * h[1], Sgn(x) * Sgn(y) * h[2]>>

IsZeroVector(v) == \A i \in 1..v.size : v.elem[i] = Zero

\* b is a scalar multiple of a, or a of b: every 2 x 2 minor vanishes
Parallel(b, a) ==
    /\ b.size = a.size
    /\ \A i, j \in 1..a.size :
          ExactProd(b.elem[i], a.elem[j]) = ExactProd(b.elem[j], a.elem[i])

\* C9: find_pu_vector(a) throws exactly when a is the zero vector (from the
\* first normalize, before b is drawn) or when b is parallel to a (from the
\* last normalize); the exception is the zero-vector one; for every b not
\* parallel to a non-zero a it returns.
C9_ThrowsIffZeroOrParallel ==
    /\ ex.pc = "thrown" =>
          /\ ex.err = ZeroVector
          /\ \/ IsZeroVector(ex.a) /\ ex.b = NoVec
             \/ ~IsZeroVector(ex.a) /\ ex.b # NoVec /\ Parallel(ex.b, ex.a)
    /\ ex.pc = "returned" => ~IsZeroVector(ex.a) /\ ~Parallel(ex.b, ex.a)
    /\ ex.pc = "normalized" => ~IsZeroVector(ex.a)

-----------------------------------------------------------------------------
(* Properties of operator== and operator!= (SpecEq) *)

\* |x - y| is at most eps
WithinEps(x, y) == ~IsNaN(x) /\ ~IsNaN(y) /\ Abs(x - y) <= Eps

\* C6: a == b is true exactly when the sizes are equal and every pair of
\* corresponding elements differs by at most eps; no element outside a
\* buffer is read; a != b is the negation of a == b.
C6_EqualIffWithinEps ==
    /\ ex.op = "operator==" =>
          /\ ex.flag <=> /\ ex.a.size = ex.b.size
                         /\ \A i \in 1..ex.a.size : WithinEps(ex.a.elem[i], ex.b.elem[i])
          /\ ~OpEqRun(ex.a, ex.b).oob
    /\ ex.op = "operator!=" => (ex.flag <=> ~OpEq(ex.a, ex.b))

-----------------------------------------------------------------------------
(* Properties of the calls on one vector (SpecUnary) *)

\* C2: a[index], read or written, throws the out-of-range exception exactly
\* when index >= size, and then the vector is as before; otherwise it is
\* element index that is read, and a write changes that element and no
\* other; every access to an empty vector throws.
C2_IndexChecked ==
    ex.op \in {"operator[]", "operator[]="} =>
       /\ ex.err \in {NoErr, OutOfRange}
       /\ (ex.err = OutOfRange) <=> (ex.idx >= ex.a.size)
       /\ (ex.a.size = 0) => (ex.err = OutOfRange)
       /\ (ex.err = OutOfRange) => (ex.ret = ex.a)
       /\ (ex.err = NoErr /\ ex.op = "operator[]") =>
             (ex.val = ex.a.elem[ex.idx + 1] /\ ex.ret = ex.a)
       /\ (ex.err = NoErr /\ ex.op = "operator[]=") =>
             /\ ex.ret.size = ex.a.size
             /\ Len(ex.ret.elem) = Len(ex.a.elem)
             /\ ex.ret.elem[ex.idx + 1] = ex.val
             /\ \A j \in 1..ex.a.size :
                   (j # ex.idx + 1) => (ex.ret.elem[j] = ex.a.elem[j])

\* a write to the last element of a vector of two or more that changed it
C2_Witness ==
    /\ ex.op = "operator[]="
    /\ ex.a.size >= 2
    /\ ex.idx = ex.a.size - 1
    /\ ex.err = NoErr
    /\ ex.ret # ex.a

\* q is x / s, for a divisor s that is a whole number of units
IsQuotient(q, x, s) ==
    IF IsNaN(x) \/ IsNaN(s) THEN IsNaN(q)
    ELSE ~IsNaN(q) /\ q * (s \div Scale) = x

\* C7: v / 0 throws the divide-by-zero exception for every v, the empty
\* vector too, and returns nothing; v / s for s other than 0 returns a vector
\* of the size of v whose element i is v[i] / s.
C7_DivideChecked ==
    ex.op = "operator/" =>
       /\ (ex.val = Zero) => (ex.err = DivByZero /\ ex.ret = NoVec)
       /\ (ex.val # Zero) =>
             /\ ex.err = NoErr
             /\ ex.ret.size = ex.a.size
             /\ Len(ex.ret.elem) = ex.a.size
             /\ \A i \in 1..ex.a.size : IsQuotient(ex.ret.elem[i], ex.a.elem[i], ex.val)

\* a vector of numbers, one of them not 0, divided by 2
C7_Witness ==
    /\ ex.op = "operator/"
    /\ ex.val = 2 * Scale
    /\ ex.a.size >= 1
    /\ \A i \in 1..ex.a.size : ~IsNaN(ex.a.elem[i])
    /\ \E i \in 1..ex.a.size : ex.ret.elem[i] # Zero
    /\ ex.err = NoErr

\* C8: normalize throws the zero-vector exception when the sum of the squares
\* is zero (all elements zero, or no element), and then the vector is exactly
\* as before; it throws nothing else; when it returns, every element has been
\* divided by the one value sqrt(sum of squares), so [3, 4] becomes [0.6, 0.8].
C8_NormalizeValidatesFirst ==
    ex.op = "normalize" =>
       LET sum    == SumSquares(ex.a, 0, Zero)
           length == TSqrt(sum)
       IN  /\ ex.err \in {NoErr, ZeroVector}
           /\ (ex.err = ZeroVector) <=> (sum = Zero)
           /\ (\A i \in 1..ex.a.size : ex.a.elem[i] = Zero) => (ex.err = ZeroVector)
           /\ (ex.err = ZeroVector) => (ex.ret = ex.a)
           /\ (ex.err = NoErr) =>
                 /\ ex.ret.size = ex.a.size
                 /\ Len(ex.ret.elem) = ex.a.size
                 /\ \A i \in 1..ex.a.size : ex.ret.elem[i] = TDiv(ex.a.elem[i], length)
           /\ (ex.a = Vec(2, <<3 * Scale, 4 * Scale>>)) =>
                 (ex.ret = Vec(2, <<(6 * Scale) \div 10, (8 * Scale) \div 10>>))

\* [3, 4] normalized
C8_Witness ==
    /\ ex.op = "normalize"
    /\ ex.a = Vec(2, <<3 * Scale, 4 * Scale>>)
    /\ ex.err = NoErr
    /\ ex.ret # ex.a

-----------------------------------------------------------------------------
(* Properties of the arithmetic on two vectors (SpecBinary) *)

\* r is x + y, x - y or x * y, for x a whole number of units
IsResult(op, r, x, y) ==
    IF IsNaN(x) \/ IsNaN(y) THEN IsNaN(r)
    ELSE /\ ~IsNaN(r)
         /\ op = "operator+" => r = x + y
         /\ op = "operator-" => r = x - y
         /\ op = "operator*" => r = (x \div Scale) * y

\* C3: a + b, a - b and a * b throw the dimension exception exactly when the
\* sizes of a and b differ, and then return nothing; for equal sizes each
\* returns a vector of that size whose element i is a[i] + b[i], a[i] - b[i]
\* or a[i] * b[i].
C3_DimensionsChecked ==
    ex.op \in {"operator+", "operator-", "operator*"} =>
       /\ ex.err \in {NoErr, DimMismatch}
       /\ (ex.err = DimMismatch) <=> (ex.a.size # ex.b.size)
       /\ (ex.err = DimMismatch) => (ex.ret = NoVec)
       /\ (ex.err = NoErr) =>
             /\ ex.ret.size = ex.a.size
             /\ Len(ex.ret.elem) = ex.a.size
             /\ \A i \in 1..ex.a.size :
                   IsResult(ex.op, ex.ret.elem[i], ex.a.elem[i], ex.b.elem[i])

\* a product of two vectors of two numbers that is not all zero
C3_Witness ==
    /\ ex.op = "operator*"
    /\ ex.a.size = 2 /\ ex.b.size = 2
    /\ ex.err = NoErr
    /\ \A i \in 1..2 : ~IsNaN(ex.ret.elem[i]) /\ ex.ret.elem[i] # Zero

\* C5: for a and b of one length, a + b == b + a and a - b == a + b * T(-1),
\* with == the operator== of the class.
C5_CommutesAndNegates ==
    /\ ex.op = "a+b == b+a" => ex.flag
    /\ ex.op = "a-b == a+b*(-1)" => ex.flag

\* a - b compared with a + b * T(-1) for a and b that are numbers and differ
C5_Witness ==
    /\ ex.op = "a-b == a+b*(-1)"
    /\ ex.a.size >= 1
    /\ \A i \in 1..ex.a.size : ~IsNaN(ex.a.elem[i]) /\ ~IsNaN(ex.b.elem[i])
    /\ \E i \in 1..ex.a.size : ex.a.elem[i] # ex.b.elem[i]
    /\ ex.flag

=============================================================================
